---- MODULE Spec2Model ----
(***************************************************************************)
(* A model of the Julia tag scanner of julia.c: the token matcher          *)
(* (canMatch), the operator and identifier parsers, the scope stack        *)
(* ("nesting") and the line driver findJuliaTags.                          *)
(*                                                                         *)
(* A character is a one-character string; a line, a literal, a name or a   *)
(* scope path is a sequence of characters.  The terminating NUL of a C     *)
(* string is what CharAt gives at every index past the last character.     *)
(***************************************************************************)
EXTENDS Integers, Sequences, FiniteSets, TLC

\* The terminator of a C string; no line holds it.
NUL == "NUL"

\* The character ` (a TLA+ string cannot hold it).
Backquote == "BACKQUOTE"

\* The vertical tab, '\v' (it has no escape in a TLA+ string).
VT == "VT"

Lower == {"a","b","c","d","e","f","g","h","i","j","k","l","m",
          "n","o","p","q","r","s","t","u","v","w","x","y","z"}
Upper == {"A","B","C","D","E","F","G","H","I","J","K","L","M",
          "N","O","P","Q","R","S","T","U","V","W","X","Y","Z"}
Digit == {"0","1","2","3","4","5","6","7","8","9"}

\* isspace of the C locale: space, \t, \n, \v, \f, \r.
isspace(ch) == ch \in {" ", "\t", "\n", VT, "\f", "\r"}

\* isalnum of the C locale.
isalnum(ch) == ch \in Lower \cup Upper \cup Digit

\* What lies in memory after the terminating NUL of the line being processed:
\* the byte a read outside the line gives.  The program never sets it.
VARIABLE beyond

\* The values of beyond after a line: one that canMatch takes for the end of
\* a token, one that it does not.
OverreadBytes == {"(", "x"}

\* The farther of two places of a line.
Max(a, b) == IF a > b THEN a ELSE b

\* *(s + i - 1) of the C string s (indices from 1): its characters, the NUL
\* that ends it, and after the NUL whatever the memory holds.
CharAt(s, i) ==
    IF i \in 1..Len(s) THEN s[i]
    ELSE IF i = Len(s) + 1 THEN NUL
    ELSE beyond

\* strchr (list, ch) != 0; the terminating NUL of list is itself found by strchr.
charIsIn(ch, list) == ch = NUL \/ \E i \in 1..Len(list) : list[i] = ch

(***************************************************************************)
(* juliaKind and the kind table.                                           *)
(***************************************************************************)
K_UNDEFINED == -1
K_METHOD == 0
K_CLASS == 1
K_MODULE == 2
K_SINGLETON == 3
K_DESCRIBE == 4
K_CONTEXT == 5
K_MACRO == 6
K_TYPE == 7
K_IMMU == 8

\* JuliaKinds [kind] is JuliaKinds[kind + 1] here (sequences start at 1).
JuliaKinds ==
    << [letter |-> "f", name |-> "function"],
       [letter |-> "c", name |-> "class"],
       [letter |-> "m", name |-> "module"],
       [letter |-> "F", name |-> "singleton method"],
       [letter |-> "d", name |-> "describe"],
       [letter |-> "C", name |-> "context"],
       [letter |-> "M", name |-> "macro"],
       [letter |-> "t", name |-> "type"],
       [letter |-> "i", name |-> "immutable"] >>

\* KIND_COUNT (JuliaKinds)
KindCount == Len(JuliaKinds)

(***************************************************************************)
(* The scope stack as text.                                                *)
(***************************************************************************)
RECURSIVE stringListToScopeLoop(_, _, _, _)
\* The for loop of stringListToScope from index i on (i counts from 0).
stringListToScopeLoop(list, i, chunks_output, result) ==
    IF ~(i < Len(list))
    THEN result
    ELSE LET chunk == list[i + 1]
         IN  IF Len(chunk) > 0
             THEN stringListToScopeLoop(list, i + 1, chunks_output + 1,
                      result \o (IF chunks_output > 0 THEN <<".">> ELSE <<>>) \o chunk)
             ELSE stringListToScopeLoop(list, i + 1, chunks_output, result)

RECURSIVE stringListToScopeByIndexLoop(_, _, _)
\* The loop with the separator decided by the index i, not by chunks_output.
stringListToScopeByIndexLoop(list, i, result) ==
    IF ~(i < Len(list))
    THEN result
    ELSE LET chunk == list[i + 1]
         IN  IF Len(chunk) > 0
             THEN stringListToScopeByIndexLoop(list, i + 1,
                      result \o (IF i > 0 THEN <<".">> ELSE <<>>) \o chunk)
             ELSE stringListToScopeByIndexLoop(list, i + 1, result)

\* Variant of stringListToScope: a '.' before every named chunk that is not at
\* index 0, so an anonymous entry at the bottom leaves a leading '.'.
stringListToScopeByIndex(list) == stringListToScopeByIndexLoop(list, 0, <<>>)

\* stringListToScope (list): the '.'-joined non-empty entries of list.
stringListToScope(list) == stringListToScopeLoop(list, 0, 0, <<>>)

(***************************************************************************)
(* The token matcher.                                                      *)
(***************************************************************************)
\* strncmp ((const char*) *s, literal, literal_length) == 0, for the line s
\* read from the cursor cp.  A literal holds no NUL, so the comparison is equal
\* exactly when each of its characters is found; a NUL of the line differs from
\* the literal's character and ends the comparison there.
strncmpEqual(s, cp, literal) ==
    \A i \in 1..Len(literal) : CharAt(s, cp + i - 1) = literal[i]

\* Variant of canMatch without the end-of-token test (and without the read
\* of the character after the literal).
canMatchPrefix(s, cp, literal) ==
    IF ~strncmpEqual(s, cp, literal)
    THEN [ok |-> FALSE, cp |-> cp, reach |-> 0]
    ELSE [ok |-> TRUE, cp |-> cp + Len(literal), reach |-> 0]

\* canMatch (&cp, literal) on line s: whether it matched, the cursor after,
\* and the place it read next_char at (reach).  next_char is read before the
\* comparison, and when the line ends less than literal_length characters
\* after the cursor the read lies after the line's NUL: undefined behaviour,
\* which gives some byte (beyond) or ends the process.
canMatch(s, cp, literal) ==
    LET literal_length == Len(literal)
        next_char == CharAt(s, cp + literal_length)
        reach == cp + literal_length
    IN  IF ~strncmpEqual(s, cp, literal)
        THEN [ok |-> FALSE, cp |-> cp, reach |-> reach]
        ELSE IF ~(next_char = NUL \/ isspace(next_char) \/ next_char = "(")
        THEN [ok |-> FALSE, cp |-> cp, reach |-> reach]
        ELSE [ok |-> TRUE, cp |-> cp + literal_length, reach |-> reach]

(***************************************************************************)
(* The operator and identifier parsers.                                    *)
(***************************************************************************)
\* julia_OPERATORS, in the order of the source, without the closing 0.
julia_OPERATORS ==
    << <<"[", "]">>, <<"[", "]", "=">>,
       <<"*", "*">>,
       <<"!">>, <<"~">>, <<"+", "@">>, <<"-", "@">>,
       <<"*">>, <<"/">>, <<"%">>,
       <<"+">>, <<"-">>,
       <<">", ">">>, <<"<", "<">>,
       <<"&">>,
       <<"^">>, <<"|">>,
       <<"<", "=">>, <<"<">>, <<">">>, <<">", "=">>,
       <<"<", "=", ">">>, <<"=", "=">>, <<"=", "=", "=">>, <<"!", "=">>,
       <<"=", "~">>, <<"!", "~">>,
       <<Backquote>> >>

RECURSIVE parseJuliaOperatorLoop(_, _, _, _)
\* The for loop of parseJuliaOperator from index i on (i counts from 0).
parseJuliaOperatorLoop(s, cp, name, i) ==
    IF ~(i < Len(julia_OPERATORS))
    THEN [ok |-> FALSE, name |-> name, cp |-> cp, reach |-> 0]
    ELSE LET m == canMatch(s, cp, julia_OPERATORS[i + 1])
             rest == parseJuliaOperatorLoop(s, cp, name, i + 1)
         IN  IF m.ok
             THEN [ok |-> TRUE, name |-> name \o julia_OPERATORS[i + 1], cp |-> m.cp,
                   reach |-> m.reach]
             ELSE [rest EXCEPT !.reach = Max(@, m.reach)]

RECURSIVE parseJuliaOperatorPrefixLoop(_, _, _, _)
\* The loop taking the first listed operator that strncmp finds at the cursor.
parseJuliaOperatorPrefixLoop(s, cp, name, i) ==
    IF ~(i < Len(julia_OPERATORS))
    THEN [ok |-> FALSE, name |-> name, cp |-> cp, reach |-> 0]
    ELSE IF strncmpEqual(s, cp, julia_OPERATORS[i + 1])
    THEN [ok |-> TRUE, name |-> name \o julia_OPERATORS[i + 1],
          cp |-> cp + Len(julia_OPERATORS[i + 1]), reach |-> 0]
    ELSE parseJuliaOperatorPrefixLoop(s, cp, name, i + 1)

\* Variant of parseJuliaOperator: the first listed operator found at the
\* cursor is taken, whatever follows it.
parseJuliaOperatorPrefix(s, cp, name) == parseJuliaOperatorPrefixLoop(s, cp, name, 0)

\* parseJuliaOperator (name, &cp): the first listed operator that canMatch takes.
parseJuliaOperator(s, cp, name) == parseJuliaOperatorLoop(s, cp, name, 0)

RECURSIVE skipWhitespace(_, _)
\* skipWhitespace (&cp): the cursor after the white space at cp.
skipWhitespace(s, cp) ==
    IF isspace(CharAt(s, cp)) THEN skipWhitespace(s, cp + 1) ELSE cp

\* The characters parseIdentifier takes besides alphanumerics, by kind.
also_ok(kind) ==
    IF kind = K_METHOD
    THEN <<"_", ".", "?", "!", "=">>
    ELSE IF kind = K_DESCRIBE \/ kind = K_CONTEXT
    THEN <<" ", ",", "\"", ".", "#", "_", "?", "!", "=", "'", "/", "-">>
    ELSE <<"_">>

RECURSIVE parseIdentifier(_, _, _, _)
RECURSIVE parseIdentifierLoop(_, _, _, _)

\* Variant of the copying loop: the name copied so far is kept when the '.'
\* of a singleton method is met.
parseIdentifierLoopKeepName(s, cp, name, kind) ==
    IF ~(CharAt(s, cp) # NUL
         /\ (isalnum(CharAt(s, cp)) \/ charIsIn(CharAt(s, cp), also_ok(kind))))
    THEN [kind |-> kind, name |-> name, cp |-> cp, reach |-> 0]
    ELSE LET last_char == CharAt(s, cp)
             name1 == Append(name, last_char)
             cp1 == cp + 1
         IN  IF kind = K_METHOD /\ last_char = "."
             THEN parseIdentifier(s, cp1, name1, K_SINGLETON)
             ELSE IF kind = K_METHOD /\ charIsIn(last_char, <<"?", "!", "=">>)
             THEN [kind |-> kind, name |-> name1, cp |-> cp1, reach |-> 0]
             ELSE parseIdentifierLoop(s, cp1, name1, kind)

\* The copying loop of parseIdentifier: [kind, name, cp] when it ends, and
\* the farthest place the parse it hands over to read at.
parseIdentifierLoop(s, cp, name, kind) ==
    IF ~(CharAt(s, cp) # NUL
         /\ (isalnum(CharAt(s, cp)) \/ charIsIn(CharAt(s, cp), also_ok(kind))))
    THEN [kind |-> kind, name |-> name, cp |-> cp, reach |-> 0]
    ELSE LET last_char == CharAt(s, cp)
             name1 == Append(name, last_char)
             cp1 == cp + 1
         IN  IF kind = K_METHOD /\ last_char = "."
             THEN parseIdentifier(s, cp1, <<>>, K_SINGLETON)
             ELSE IF kind = K_METHOD /\ charIsIn(last_char, <<"?", "!", "=">>)
             THEN [kind |-> kind, name |-> name1, cp |-> cp1, reach |-> 0]
             ELSE parseIdentifierLoop(s, cp1, name1, kind)

\* parseIdentifier (&cp, name, kind): the kind returned, the name, the cursor,
\* and the farthest place a canMatch of parseJuliaOperator read at.
parseIdentifier(s, cp, name, kind) ==
    LET cp0 == skipWhitespace(s, cp)
        op == parseJuliaOperator(s, cp0, name)
        loop == parseIdentifierLoop(s, cp0, name, kind)
    IN  IF kind = K_CLASS /\ CharAt(s, cp0) = "<" /\ CharAt(s, cp0 + 1) = "<"
        THEN [kind |-> K_UNDEFINED, name |-> name, cp |-> cp0, reach |-> 0]
        ELSE IF (kind = K_METHOD \/ kind = K_SINGLETON) /\ op.ok
        THEN [kind |-> kind, name |-> op.name, cp |-> op.cp, reach |-> op.reach]
        ELSE IF kind = K_METHOD \/ kind = K_SINGLETON
        THEN [loop EXCEPT !.reach = Max(@, op.reach)]
        ELSE loop

(***************************************************************************)
(* The literals the driver hands to canMatch.                               *)
(***************************************************************************)
lit_cbegin == <<"=", "b", "e", "g", "i", "n">>
lit_cend == <<"=", "e", "n", "d">>
lit_case == <<"c", "a", "s", "e">>
lit_for == <<"f", "o", "r">>
lit_if == <<"i", "f">>
lit_unless == <<"u", "n", "l", "e", "s", "s">>
lit_quote == <<"q", "u", "o", "t", "e">>
lit_let == <<"l", "e", "t">>
lit_begin == <<"b", "e", "g", "i", "n">>
lit_catch == <<"c", "a", "t", "c", "h">>
lit_while == <<"w", "h", "i", "l", "e">>
lit_function == <<"f", "u", "n", "c", "t", "i", "o", "n">>
lit_class == <<"c", "l", "a", "s", "s">>
lit_module == <<"m", "o", "d", "u", "l", "e">>
lit_describe == <<"d", "e", "s", "c", "r", "i", "b", "e">>
lit_context == <<"c", "o", "n", "t", "e", "x", "t">>
lit_macro == <<"m", "a", "c", "r", "o">>
lit_type == <<"t", "y", "p", "e">>
lit_immutable == <<"i", "m", "m", "u", "t", "a", "b", "l", "e">>
lit_do == <<"d", "o">>
lit_end == <<"e", "n", "d">>

(***************************************************************************)
(* The input: lines, and the files made of them.                           *)
(***************************************************************************)
\* How many lines a file built from StructLines holds at most.
MaxLines == 3

\* How many times in a row the file is scanned.
MaxScans == 2

\* module M
L_module_M ==
    <<"m", "o", "d", "u", "l", "e", " ", "M">>
\* function f
L_function_f ==
    <<"f", "u", "n", "c", "t", "i", "o", "n", " ", "f">>
\* if x > 0
L_if_x ==
    <<"i", "f", " ", "x", " ", ">", " ", "0">>
\* end
L_end ==
    <<"e", "n", "d">>
\* class << self
L_class_lshift ==
    <<"c", "l", "a", "s", "s", " ", "<", "<", " ", "s", "e", "l", "f">>
\* xs.each do |x|
L_x_do ==
    <<"x", "s", ".", "e", "a", "c", "h", " ", "d", "o", " ", "|", "x", "|">>
\* =begin
L_cbegin ==
    <<"=", "b", "e", "g", "i", "n">>
\* =end
L_cend ==
    <<"=", "e", "n", "d">>
\* module Foo
L_module_Foo ==
    <<"m", "o", "d", "u", "l", "e", " ", "F", "o", "o">>
\*   class Bar
L_class_Bar ==
    <<" ", " ", "c", "l", "a", "s", "s", " ", "B", "a", "r">>
\*     function baz
L_function_baz ==
    <<" ", " ", " ", " ", "f", "u", "n", "c", "t", "i", "o", "n", " ", "b", "a", "z">>
\*     end
L_end4 ==
    <<" ", " ", " ", " ", "e", "n", "d">>
\*   end
L_end2 ==
    <<" ", " ", "e", "n", "d">>
\* function
L_function_only ==
    <<"f", "u", "n", "c", "t", "i", "o", "n">>
\* function  
L_function_sp ==
    <<"f", "u", "n", "c", "t", "i", "o", "n", " ", " ">>
\* function(x)
L_function_paren ==
    <<"f", "u", "n", "c", "t", "i", "o", "n", "(", "x", ")">>
\* function a.
L_function_dot_only ==
    <<"f", "u", "n", "c", "t", "i", "o", "n", " ", "a", ".">>
\* module
L_module_only ==
    <<"m", "o", "d", "u", "l", "e">>
\* function\n
L_function_nl ==
    <<"f", "u", "n", "c", "t", "i", "o", "n", "\n">>
\* class <<HTTP
L_class_lshift_HTTP ==
    <<"c", "l", "a", "s", "s", " ", "<", "<", "H", "T", "T", "P">>
\* format x
L_format ==
    <<"f", "o", "r", "m", "a", "t", " ", "x">>
\* classify Foo
L_classify ==
    <<"c", "l", "a", "s", "s", "i", "f", "y", " ", "F", "o", "o">>
\* end_of
L_end_of ==
    <<"e", "n", "d", "_", "o", "f">>
\* for i in xs
L_for_i ==
    <<"f", "o", "r", " ", "i", " ", "i", "n", " ", "x", "s">>
\* if(x)
L_if_paren ==
    <<"i", "f", "(", "x", ")">>
\* class\tC
L_class_tab ==
    <<"c", "l", "a", "s", "s", "\t", "C">>
\* function [](key)
L_op_index ==
    <<"f", "u", "n", "c", "t", "i", "o", "n", " ", "[", "]", "(", "k", "e", "y", ")">>
\* function []=(key, val)
L_op_index_set ==
    <<"f", "u", "n", "c", "t", "i", "o", "n", " ", "[", "]", "=", "(", "k", "e", "y", ",", " ", "v", "a", "l", ")">>
\* function <=>(o)
L_op_cmp3 ==
    <<"f", "u", "n", "c", "t", "i", "o", "n", " ", "<", "=", ">", "(", "o", ")">>
\* function <=(o)
L_op_le ==
    <<"f", "u", "n", "c", "t", "i", "o", "n", " ", "<", "=", "(", "o", ")">>
\* function ==(o)
L_op_eq2 ==
    <<"f", "u", "n", "c", "t", "i", "o", "n", " ", "=", "=", "(", "o", ")">>
\* function ===(o)
L_op_eq3 ==
    <<"f", "u", "n", "c", "t", "i", "o", "n", " ", "=", "=", "=", "(", "o", ")">>
\* function !=(o)
L_op_ne ==
    <<"f", "u", "n", "c", "t", "i", "o", "n", " ", "!", "=", "(", "o", ")">>
\* function !(o)
L_op_not ==
    <<"f", "u", "n", "c", "t", "i", "o", "n", " ", "!", "(", "o", ")">>
\* function <<(o)
L_op_shl ==
    <<"f", "u", "n", "c", "t", "i", "o", "n", " ", "<", "<", "(", "o", ")">>
\* function <(o)
L_op_lt ==
    <<"f", "u", "n", "c", "t", "i", "o", "n", " ", "<", "(", "o", ")">>
\* function **(o)
L_op_pow ==
    <<"f", "u", "n", "c", "t", "i", "o", "n", " ", "*", "*", "(", "o", ")">>
\* function *(o)
L_op_mul ==
    <<"f", "u", "n", "c", "t", "i", "o", "n", " ", "*", "(", "o", ")">>
\* function + (a, b)
L_op_plus_sp ==
    <<"f", "u", "n", "c", "t", "i", "o", "n", " ", "+", " ", "(", "a", ",", " ", "b", ")">>
\* function !=x
L_op_ne_x ==
    <<"f", "u", "n", "c", "t", "i", "o", "n", " ", "!", "=", "x">>
\* function []=x
L_op_index_set_x ==
    <<"f", "u", "n", "c", "t", "i", "o", "n", " ", "[", "]", "=", "x">>
\* x = "a" end
L_str_end ==
    <<"x", " ", "=", " ", "\"", "a", "\"", " ", "e", "n", "d">>
\* s = " end "
L_str_inner_end ==
    <<"s", " ", "=", " ", "\"", " ", "e", "n", "d", " ", "\"">>
\* s = " begin
L_str_open_begin ==
    <<"s", " ", "=", " ", "\"", " ", "b", "e", "g", "i", "n">>
\* puts " do " do
L_str_do ==
    <<"p", "u", "t", "s", " ", "\"", " ", "d", "o", " ", "\"", " ", "d", "o">>
\* function push!(x)
L_push_bang ==
    <<"f", "u", "n", "c", "t", "i", "o", "n", " ", "p", "u", "s", "h", "!", "(", "x", ")">>
\* function Base.push!(x)
L_Base_push_bang ==
    <<"f", "u", "n", "c", "t", "i", "o", "n", " ", "B", "a", "s", "e", ".", "p", "u", "s", "h", "!", "(", "x", ")">>
\* function empty?(x)
L_empty_q ==
    <<"f", "u", "n", "c", "t", "i", "o", "n", " ", "e", "m", "p", "t", "y", "?", "(", "x", ")">>
\* function x=(v)
L_set_x ==
    <<"f", "u", "n", "c", "t", "i", "o", "n", " ", "x", "=", "(", "v", ")">>
\* function foo_bar1(x)
L_foo_bar1 ==
    <<"f", "u", "n", "c", "t", "i", "o", "n", " ", "f", "o", "o", "_", "b", "a", "r", "1", "(", "x", ")">>
\* function a.b.c
L_a_b_c ==
    <<"f", "u", "n", "c", "t", "i", "o", "n", " ", "a", ".", "b", ".", "c">>
\* function A.+(x)
L_A_plus ==
    <<"f", "u", "n", "c", "t", "i", "o", "n", " ", "A", ".", "+", "(", "x", ")">>
\* class A.b
L_class_A_b ==
    <<"c", "l", "a", "s", "s", " ", "A", ".", "b">>
\* describe a b
L_describe ==
    <<"d", "e", "s", "c", "r", "i", "b", "e", " ", "a", " ", "b">>
\* context c
L_context ==
    <<"c", "o", "n", "t", "e", "x", "t", " ", "c">>
\* macro m
L_macro ==
    <<"m", "a", "c", "r", "o", " ", "m">>
\* type T
L_type ==
    <<"t", "y", "p", "e", " ", "T">>
\* immutable I
L_immutable ==
    <<"i", "m", "m", "u", "t", "a", "b", "l", "e", " ", "I">>
\* class C
L_class_C ==
    <<"c", "l", "a", "s", "s", " ", "C">>
\* f(x)end
L_paren_end ==
    <<"f", "(", "x", ")", "e", "n", "d">>
\* x;end
L_semi_end ==
    <<"x", ";", "e", "n", "d">>
\* x;begin
L_semi_begin ==
    <<"x", ";", "b", "e", "g", "i", "n">>
\* if function g
L_if_function ==
    <<"i", "f", " ", "f", "u", "n", "c", "t", "i", "o", "n", " ", "g">>
\* x function g
L_x_function ==
    <<"x", " ", "f", "u", "n", "c", "t", "i", "o", "n", " ", "g">>
\*   function h
L_indent_function ==
    <<" ", " ", "f", "u", "n", "c", "t", "i", "o", "n", " ", "h">>
\* return if x
L_return_if ==
    <<"r", "e", "t", "u", "r", "n", " ", "i", "f", " ", "x">>
\* begin
L_begin ==
    <<"b", "e", "g", "i", "n">>
\* case x
L_case ==
    <<"c", "a", "s", "e", " ", "x">>
\* unless x
L_unless ==
    <<"u", "n", "l", "e", "s", "s", " ", "x">>
\* quote
L_quote ==
    <<"q", "u", "o", "t", "e">>
\* let x
L_let ==
    <<"l", "e", "t", " ", "x">>
\* catch e
L_catch ==
    <<"c", "a", "t", "c", "h", " ", "e">>
\* while x
L_while ==
    <<"w", "h", "i", "l", "e", " ", "x">>
\* x while y
L_x_while ==
    <<"x", " ", "w", "h", "i", "l", "e", " ", "y">>
\* begin begin
L_begin_begin ==
    <<"b", "e", "g", "i", "n", " ", "b", "e", "g", "i", "n">>
\* # end
L_hash_end ==
    <<"#", " ", "e", "n", "d">>
\* x # begin
L_x_hash_begin ==
    <<"x", " ", "#", " ", "b", "e", "g", "i", "n">>
\* end begin
L_end_begin ==
    <<"e", "n", "d", " ", "b", "e", "g", "i", "n">>
\* end end
L_end_end ==
    <<"e", "n", "d", " ", "e", "n", "d">>
\* x = begin
L_x_begin ==
    <<"x", " ", "=", " ", "b", "e", "g", "i", "n">>
\* end\n
L_end_nl ==
    <<"e", "n", "d", "\n">>
\* function f end
L_function_f_end ==
    <<"f", "u", "n", "c", "t", "i", "o", "n", " ", "f", " ", "e", "n", "d">>
\* function .b
L_dot_b ==
    <<"f", "u", "n", "c", "t", "i", "o", "n", " ", ".", "b">>
\* function a. b
L_a_dot_sp_b ==
    <<"f", "u", "n", "c", "t", "i", "o", "n", " ", "a", ".", " ", "b">>
\* describe a.b
L_describe_dot ==
    <<"d", "e", "s", "c", "r", "i", "b", "e", " ", "a", ".", "b">>
\* module A.b
L_module_A_b ==
    <<"m", "o", "d", "u", "l", "e", " ", "A", ".", "b">>
\* function a.b!
L_a_dot_b_bang ==
    <<"f", "u", "n", "c", "t", "i", "o", "n", " ", "a", ".", "b", "!">>
\* function f function g
L_two_functions ==
    <<"f", "u", "n", "c", "t", "i", "o", "n", " ", "f", " ", "f", "u", "n", "c", "t", "i", "o", "n", " ", "g">>
\* module M class C
L_module_class ==
    <<"m", "o", "d", "u", "l", "e", " ", "M", " ", "c", "l", "a", "s", "s", " ", "C">>
\* begin function g
L_begin_function ==
    <<"b", "e", "g", "i", "n", " ", "f", "u", "n", "c", "t", "i", "o", "n", " ", "g">>
\* x unless y
L_x_unless ==
    <<"x", " ", "u", "n", "l", "e", "s", "s", " ", "y">>
\* x for y in z
L_x_for ==
    <<"x", " ", "f", "o", "r", " ", "y", " ", "i", "n", " ", "z">>
\* x = case y
L_x_case ==
    <<"x", " ", "=", " ", "c", "a", "s", "e", " ", "y">>
\* if while
L_if_while ==
    <<"i", "f", " ", "w", "h", "i", "l", "e">>
\* function\vf
L_function_vt_f ==
    <<"f", "u", "n", "c", "t", "i", "o", "n", VT, "f">>
\* end\vx
L_end_vt_x ==
    <<"e", "n", "d", VT, "x">>
\* \vfunction g
L_vt_function ==
    <<VT, "f", "u", "n", "c", "t", "i", "o", "n", " ", "g">>
\* (the empty line)
L_empty ==
    <<>>
\* en
L_en ==
    <<"e", "n">>

\* The lines that open, close and comment out scopes; files hold any of them in any order.
StructLines ==
    {L_module_M, L_function_f, L_if_x, L_end, L_class_lshift, L_x_do,
     L_cbegin, L_cend}

\* Lines that each put one case to the matcher, the parsers or the rest-of-line loop.
LexLines ==
    {L_function_only, L_function_sp, L_function_paren, L_function_dot_only,
     L_module_only, L_function_nl, L_class_lshift_HTTP, L_format, L_classify,
     L_end_of, L_for_i, L_if_paren, L_class_tab, L_op_index, L_op_index_set,
     L_op_cmp3, L_op_le, L_op_eq2, L_op_eq3, L_op_ne, L_op_not, L_op_shl,
     L_op_lt, L_op_pow, L_op_mul, L_op_plus_sp, L_op_ne_x, L_op_index_set_x,
     L_str_end, L_str_inner_end, L_str_open_begin, L_str_do, L_push_bang,
     L_Base_push_bang, L_empty_q, L_set_x, L_foo_bar1, L_a_b_c, L_A_plus,
     L_class_A_b, L_describe, L_context, L_macro, L_type, L_immutable,
     L_class_C, L_paren_end, L_semi_end, L_semi_begin, L_if_function,
     L_x_function, L_indent_function, L_return_if, L_begin, L_case, L_unless,
     L_quote, L_let, L_catch, L_while, L_x_while, L_begin_begin, L_hash_end,
     L_x_hash_begin, L_end_begin, L_end_end, L_x_begin, L_end_nl,
     L_function_f_end, L_dot_b, L_a_dot_sp_b, L_describe_dot, L_module_A_b,
     L_a_dot_b_bang, L_two_functions, L_module_class, L_begin_function,
     L_x_unless, L_x_for, L_x_case, L_if_while, L_function_vt_f, L_end_vt_x,
     L_vt_function, L_empty, L_en}

\* Every file of 1..MaxLines lines of StructLines.
StructFiles == UNION {[1..n -> StructLines] : n \in 1..MaxLines}

\* Each line of LexLines alone, and inside a module.
LexFiles == {<<l>> : l \in LexLines} \cup {<<L_module_M, l>> : l \in LexLines}

\* module Foo / class Bar / function baz, each closed by its end.
File_FooBarBaz ==
    <<L_module_Foo, L_class_Bar, L_function_baz, L_end4, L_end2, L_end>>

\* A file that ends inside a block comment, a module closed before it.
File_OpenComment ==
    <<L_module_M, L_end, L_function_f, L_cbegin>>

\* A function inside a class inside a module, with an if and a do block between.
File_MixedNesting ==
    <<L_module_M, L_if_x, L_class_C, L_x_do, L_function_f>>

ExampleFiles == {File_FooBarBaz, File_OpenComment, File_MixedNesting}

Files == StructFiles \cup LexFiles \cup ExampleFiles

(***************************************************************************)
(* The steps of findJuliaTags as functions of the scanner's state.         *)
(***************************************************************************)
RECURSIVE firstMatch(_, _, _, _)
\* A chain canMatch (&cp, l1) || canMatch (&cp, l2) || ... (or if / else if)
\* over literals[i..]: the index of the first literal that matched (0 when
\* none does), the cursor after it, and the farthest place the canMatch calls
\* made read at.
firstMatch(s, cp, literals, i) ==
    IF i > Len(literals)
    THEN [ok |-> FALSE, index |-> 0, cp |-> cp, reach |-> 0]
    ELSE LET m == canMatch(s, cp, literals[i])
             rest == firstMatch(s, cp, literals, i + 1)
         IN  IF m.ok
             THEN [ok |-> TRUE, index |-> i, cp |-> m.cp, reach |-> m.reach]
             ELSE [rest EXCEPT !.reach = Max(@, m.reach)]

\* The keywords of the line-leading test that enters an unnamed scope.
blockKeywords ==
    <<lit_case, lit_for, lit_if, lit_unless, lit_quote, lit_let, lit_begin,
      lit_catch, lit_while>>

\* The keywords of the if / else if chain of definitions, and the kind each
\* hands to readAndEmitTag.
definitionKeywords ==
    <<lit_function, lit_class, lit_module, lit_describe, lit_context,
      lit_macro, lit_type, lit_immutable>>

\* Variant of definitionKinds: describe and context hand over each other's kind.
definitionKindsSwapped ==
    <<K_METHOD, K_CLASS, K_MODULE, K_CONTEXT, K_DESCRIBE, K_MACRO, K_TYPE, K_IMMU>>

definitionKinds ==
    <<K_METHOD, K_CLASS, K_MODULE, K_DESCRIBE, K_CONTEXT, K_MACRO, K_TYPE, K_IMMU>>

\* enterUnnamedScope (): the stack with an empty string added.
enterUnnamedScope(list) == Append(list, <<>>)

\* Variant of leaveScope: the oldest entry leaves, not the most recent.
leaveOldestScope(list) == SubSeq(list, 2, Len(list))

\* stringListRemoveLast after vStringDelete (stringListLast): the stack
\* without its last entry.
leaveScope(list) == SubSeq(list, 1, Len(list) - 1)

\* Variant of emitJuliaTag: the name is added to the stack before the scope
\* is computed.
emitJuliaTagPushFirst(name, kind, list) ==
    [tag |-> [name |-> name,
              kind |-> JuliaKinds[kind + 1].letter,
              kindName |-> JuliaKinds[kind + 1].name,
              scope |-> stringListToScope(Append(list, name))],
     nesting |-> Append(list, name)]

\* emitJuliaTag (name, kind): the tag made, and the stack with name added.
emitJuliaTag(name, kind, list) ==
    [tag |-> [name |-> name,
              kind |-> JuliaKinds[kind + 1].letter,
              kindName |-> JuliaKinds[kind + 1].name,
              scope |-> stringListToScope(list)],
     nesting |-> Append(list, name)]

\* Variant of readAndEmitTag without the test for an empty name.
readAndEmitTagAnyName(s, cp, expected_kind, list) ==
    IF isspace(CharAt(s, cp))
    THEN LET p == parseIdentifier(s, cp, <<>>, expected_kind)
         IN  IF p.kind = K_UNDEFINED
             THEN [cp |-> p.cp, emitted |-> FALSE, tags |-> <<>>, nesting |-> list,
                   reach |-> p.reach]
             ELSE LET e == emitJuliaTag(p.name, p.kind, list)
                  IN  [cp |-> p.cp, emitted |-> TRUE, tags |-> <<e.tag>>,
                       nesting |-> e.nesting, reach |-> p.reach]
    ELSE [cp |-> cp, emitted |-> FALSE, tags |-> <<>>, nesting |-> list,
          reach |-> 0]

\* readAndEmitTag (&cp, expected_kind): the cursor after, whether a tag was
\* made, the tag, the stack after, and the farthest place the parse read at.
readAndEmitTag(s, cp, expected_kind, list) ==
    IF isspace(CharAt(s, cp))
    THEN LET p == parseIdentifier(s, cp, <<>>, expected_kind)
         IN  IF p.kind = K_UNDEFINED \/ Len(p.name) = 0
             THEN [cp |-> p.cp, emitted |-> FALSE, tags |-> <<>>, nesting |-> list,
                   reach |-> p.reach]
             ELSE LET e == emitJuliaTag(p.name, p.kind, list)
                  IN  [cp |-> p.cp, emitted |-> TRUE, tags |-> <<e.tag>>,
                       nesting |-> e.nesting, reach |-> p.reach]
    ELSE [cp |-> cp, emitted |-> FALSE, tags |-> <<>>, nesting |-> list,
          reach |-> 0]

\* The test for the block comment markers and the skipWhitespace after it:
\* whether the line is a marker line (continue), the flag and the cursor
\* after, and the farthest place a canMatch read at.
commentMarker(s, cp, inComment) ==
    IF canMatch(s, cp, lit_cbegin).ok
    THEN [continue |-> TRUE, inMultiLineComment |-> TRUE,
          cp |-> canMatch(s, cp, lit_cbegin).cp,
          reach |-> canMatch(s, cp, lit_cbegin).reach]
    ELSE IF canMatch(s, cp, lit_cend).ok
    THEN [continue |-> TRUE, inMultiLineComment |-> FALSE,
          cp |-> canMatch(s, cp, lit_cend).cp,
          reach |-> Max(canMatch(s, cp, lit_cbegin).reach,
                        canMatch(s, cp, lit_cend).reach)]
    ELSE [continue |-> FALSE, inMultiLineComment |-> inComment,
          cp |-> skipWhitespace(s, cp),
          reach |-> Max(canMatch(s, cp, lit_cbegin).reach,
                        canMatch(s, cp, lit_cend).reach)]

\* Variant of blockKeyword: the white space after the keyword is skipped too,
\* so the definition test that follows sees the next token.
blockKeywordSkipSpace(s, cp, list) ==
    LET m == firstMatch(s, cp, blockKeywords, 1)
    IN  IF m.ok
        THEN [cp |-> skipWhitespace(s, m.cp), nesting |-> enterUnnamedScope(list),
              reach |-> m.reach]
        ELSE [cp |-> cp, nesting |-> list, reach |-> m.reach]

\* The line-leading test for case, for, if, ...: the cursor and the stack after.
blockKeyword(s, cp, list) ==
    LET m == firstMatch(s, cp, blockKeywords, 1)
    IN  IF m.ok
        THEN [cp |-> m.cp, nesting |-> enterUnnamedScope(list),
              reach |-> m.reach]
        ELSE [cp |-> cp, nesting |-> list, reach |-> m.reach]

\* The if / else if chain over the definition keywords.
definition(s, cp, list) ==
    LET m == firstMatch(s, cp, definitionKeywords, 1)
        r == readAndEmitTag(s, m.cp, definitionKinds[m.index], list)
    IN  IF m.ok
        THEN [r EXCEPT !.reach = Max(@, m.reach)]
        ELSE [cp |-> cp, emitted |-> FALSE, tags |-> <<>>, nesting |-> list,
              reach |-> m.reach]

RECURSIVE skipString(_, _)
\* do ++cp; while (*cp != 0 && *cp != '"'), entered with cp on a '"': the
\* cursor stops on the next '"' or on the NUL.
skipString(s, cp) ==
    LET cp1 == cp + 1
    IN  IF CharAt(s, cp1) # NUL /\ CharAt(s, cp1) # "\""
        THEN skipString(s, cp1)
        ELSE cp1

RECURSIVE skipToken(_, _)
\* do ++cp; while (isalnum (*cp) || *cp == '_'): one character, and the
\* alphanumerics and '_' that follow it.
skipToken(s, cp) ==
    LET cp1 == cp + 1
    IN  IF isalnum(CharAt(s, cp1)) \/ CharAt(s, cp1) = "_"
        THEN skipToken(s, cp1)
        ELSE cp1

\* Variant of scanStep: every block keyword enters a scope in the loop over
\* the rest of the line, not begin alone.
scanStepAnyBlockKeyword(s, cp, list, inComment) ==
    LET mb == firstMatch(s, cp, blockKeywords, 1)
        md == canMatch(s, cp, lit_do)
        me == canMatch(s, cp, lit_end)
        all == Max(Max(mb.reach, md.reach), me.reach)
    IN  IF inComment \/ isspace(CharAt(s, cp))
        THEN [break |-> FALSE, cp |-> cp + 1, nesting |-> list, reach |-> 0]
        ELSE IF CharAt(s, cp) = "#"
        THEN [break |-> TRUE, cp |-> cp, nesting |-> list, reach |-> 0]
        ELSE IF mb.ok
        THEN [break |-> FALSE, cp |-> mb.cp, nesting |-> enterUnnamedScope(list),
              reach |-> mb.reach]
        ELSE IF md.ok
        THEN [break |-> FALSE, cp |-> md.cp, nesting |-> enterUnnamedScope(list),
              reach |-> Max(mb.reach, md.reach)]
        ELSE IF me.ok /\ Len(list) > 0
        THEN [break |-> FALSE, cp |-> me.cp, nesting |-> leaveScope(list),
              reach |-> all]
        ELSE IF CharAt(s, me.cp) = "\""
        THEN [break |-> FALSE, cp |-> skipString(s, me.cp), nesting |-> list,
              reach |-> all]
        ELSE IF CharAt(s, me.cp) # NUL
        THEN [break |-> FALSE, cp |-> skipToken(s, me.cp), nesting |-> list,
              reach |-> all]
        ELSE [break |-> FALSE, cp |-> me.cp, nesting |-> list, reach |-> all]

\* One iteration of while (*cp != '\0') in findJuliaTags, taken with
\* *cp != '\0': whether it left the loop by break, the cursor and the stack
\* after, and the farthest place a canMatch it made read at.  The canMatch
\* of "end" moves the cursor also when the stack is empty and the branch is
\* not taken; the tests after it read the moved cursor.
scanStep(s, cp, list, inComment) ==
    LET mb == canMatch(s, cp, lit_begin)
        md == canMatch(s, cp, lit_do)
        me == canMatch(s, cp, lit_end)
        all == Max(Max(mb.reach, md.reach), me.reach)
    IN  IF inComment \/ isspace(CharAt(s, cp))
        THEN [break |-> FALSE, cp |-> cp + 1, nesting |-> list, reach |-> 0]
        ELSE IF CharAt(s, cp) = "#"
        THEN [break |-> TRUE, cp |-> cp, nesting |-> list, reach |-> 0]
        ELSE IF mb.ok
        THEN [break |-> FALSE, cp |-> mb.cp, nesting |-> enterUnnamedScope(list),
              reach |-> mb.reach]
        ELSE IF md.ok
        THEN [break |-> FALSE, cp |-> md.cp, nesting |-> enterUnnamedScope(list),
              reach |-> Max(mb.reach, md.reach)]
        ELSE IF me.ok /\ Len(list) > 0
        THEN [break |-> FALSE, cp |-> me.cp, nesting |-> leaveScope(list),
              reach |-> all]
        ELSE IF CharAt(s, me.cp) = "\""
        THEN [break |-> FALSE, cp |-> skipString(s, me.cp), nesting |-> list,
              reach |-> all]
        ELSE IF CharAt(s, me.cp) # NUL
        THEN [break |-> FALSE, cp |-> skipToken(s, me.cp), nesting |-> list,
              reach |-> all]
        ELSE [break |-> FALSE, cp |-> me.cp, nesting |-> list, reach |-> all]

(***************************************************************************)
(* The state machine: sequential scans of one file.                        *)
(***************************************************************************)
VARIABLES
    file,                \* the lines fileReadLine gives, in order
    scan,                \* how many calls of findJuliaTags have started
    lineNo,              \* how many lines the current scan has read
    line,                \* the line being processed
    cp,                  \* the cursor in line (index from 1)
    pc,                  \* the place of the scan in findJuliaTags
    nesting,             \* the scope stack
    inMultiLineComment,  \* the block comment flag
    tags,                \* the tags the current scan has made, in order
    prevTags,            \* the tags the scan before it made
    depthAt,             \* history: the depth of the stack when each line was read
    readTo               \* the farthest place of the line's memory read so far

vars == <<file, scan, lineNo, line, cp, pc, nesting, inMultiLineComment,
          tags, prevTags, depthAt, beyond, readTo>>

Init ==
    /\ file \in Files
    /\ scan = 0
    /\ lineNo = 0
    /\ line = <<>>
    /\ cp = 1
    /\ pc = "idle"
    /\ nesting = <<>>
    /\ inMultiLineComment = FALSE
    /\ tags = <<>>
    /\ prevTags = <<>>
    /\ depthAt = <<>>
    /\ beyond = NUL          \* no line yet: fileReadLine brings the memory it lies in
    /\ readTo = 0

\* Variant of FindJuliaTags: the flag is kept from the scan before (as a
\* static local would be).
FindJuliaTagsKeepFlag ==
    /\ pc \in {"idle", "done"}
    /\ scan < MaxScans
    /\ scan' = scan + 1
    /\ nesting' = <<>>
    /\ tags' = <<>>
    /\ prevTags' = tags
    /\ lineNo' = 0
    /\ line' = <<>>
    /\ cp' = 1
    /\ pc' = "read"
    /\ depthAt' = <<>>
    /\ readTo' = 0
    /\ UNCHANGED <<file, inMultiLineComment, beyond>>

\* The entry of findJuliaTags: a new empty stack, the flag FALSE.
FindJuliaTags ==
    /\ pc \in {"idle", "done"}
    /\ scan < MaxScans
    /\ scan' = scan + 1
    /\ inMultiLineComment' = FALSE
    /\ nesting' = <<>>
    /\ tags' = <<>>
    /\ prevTags' = tags
    /\ lineNo' = 0
    /\ line' = <<>>
    /\ cp' = 1
    /\ pc' = "read"
    /\ depthAt' = <<>>
    /\ readTo' = 0
    /\ UNCHANGED <<file, beyond>>

\* fileReadLine () gave a line; what lies after it in memory is not known.
FileReadLine ==
    /\ pc = "read"
    /\ lineNo < Len(file)
    /\ lineNo' = lineNo + 1
    /\ line' = file[lineNo + 1]
    /\ cp' = 1
    /\ pc' = "marker"
    /\ depthAt' = Append(depthAt, Len(nesting))
    /\ beyond' \in OverreadBytes
    /\ readTo' = Len(file[lineNo + 1]) + 1
    /\ UNCHANGED <<file, scan, nesting, inMultiLineComment, tags, prevTags>>

\* fileReadLine () gave NULL: the loop ends and the stack is deleted.
EndOfInput ==
    /\ pc = "read"
    /\ lineNo = Len(file)
    /\ nesting' = <<>>
    /\ pc' = "done"
    /\ UNCHANGED <<file, scan, lineNo, line, cp, inMultiLineComment, tags, prevTags,
                   depthAt, beyond, readTo>>

\* The tests for =begin and =end, and skipWhitespace.
CommentMarker ==
    /\ pc = "marker"
    /\ LET r == commentMarker(line, cp, inMultiLineComment)
       IN  /\ inMultiLineComment' = r.inMultiLineComment
           /\ cp' = r.cp
           /\ pc' = IF r.continue THEN "read" ELSE "block"
           /\ readTo' = Max(readTo, r.reach)
    /\ UNCHANGED <<file, scan, lineNo, line, nesting, tags, prevTags,
                   depthAt, beyond>>

\* The line-leading block keyword test.
BlockKeyword ==
    /\ pc = "block"
    /\ LET r == blockKeyword(line, cp, nesting)
       IN  /\ cp' = r.cp
           /\ nesting' = r.nesting
           /\ readTo' = Max(readTo, r.reach)
    /\ pc' = "definition"
    /\ UNCHANGED <<file, scan, lineNo, line, inMultiLineComment, tags, prevTags,
                   depthAt, beyond>>

\* The line-leading definition keyword test, with readAndEmitTag.
Definition ==
    /\ pc = "definition"
    /\ LET r == definition(line, cp, nesting)
       IN  /\ cp' = r.cp
           /\ nesting' = r.nesting
           /\ tags' = tags \o r.tags
           /\ readTo' = Max(readTo, r.reach)
    /\ pc' = "scan"
    /\ UNCHANGED <<file, scan, lineNo, line, inMultiLineComment, prevTags,
                   depthAt, beyond>>

\* One iteration of the loop over the rest of the line.
ScanStep ==
    /\ pc = "scan"
    /\ CharAt(line, cp) # NUL
    /\ LET r == scanStep(line, cp, nesting, inMultiLineComment)
       IN  /\ cp' = r.cp
           /\ nesting' = r.nesting
           /\ pc' = IF r.break THEN "read" ELSE "scan"
           /\ readTo' = Max(readTo, r.reach)
    /\ UNCHANGED <<file, scan, lineNo, line, inMultiLineComment, tags, prevTags,
                   depthAt, beyond>>

\* The loop over the rest of the line ends on the NUL.
LineDone ==
    /\ pc = "scan"
    /\ CharAt(line, cp) = NUL
    /\ pc' = "read"
    /\ UNCHANGED <<file, scan, lineNo, line, cp, nesting, inMultiLineComment,
                   tags, prevTags, depthAt, beyond, readTo>>

\* Whether the step the scan is about to take makes a canMatch call that
\* reads outside the line, farther than every read of the line before it:
\* a byte that has been read once is read again without harm.
ReadsOutsideLine ==
    \/ pc = "marker" /\ commentMarker(line, cp, inMultiLineComment).reach > readTo
    \/ pc = "block" /\ blockKeyword(line, cp, nesting).reach > readTo
    \/ pc = "definition" /\ definition(line, cp, nesting).reach > readTo
    \/ pc = "scan" /\ CharAt(line, cp) # NUL
          /\ scanStep(line, cp, nesting, inMultiLineComment).reach > readTo

\* The read of next_char in canMatch lies outside the line and, instead of
\* giving a byte, ends the process (memory that is not mapped, or a build
\* that checks its reads).  The memory the line lies in may go on for some
\* bytes after its NUL, so the read that ends the process need not be the
\* first one outside the line, but it is farther than every read before it.
\* The reads come before anything the step changes.
ProcessEndsOnRead ==
    /\ ReadsOutsideLine
    /\ pc' = "aborted"
    /\ UNCHANGED <<file, scan, lineNo, line, cp, nesting, inMultiLineComment,
                   tags, prevTags, depthAt, beyond, readTo>>

Next ==
    \/ FindJuliaTags
    \/ FileReadLine
    \/ EndOfInput
    \/ CommentMarker
    \/ BlockKeyword
    \/ Definition
    \/ ScanStep
    \/ LineDone
    \/ ProcessEndsOnRead

Spec == Init /\ [][Next]_vars

(***************************************************************************)
(* Properties.                                                             *)
(***************************************************************************)
\* The named (non-empty) entries of a stack, in stack order.
NamedEntries(list) == SelectSeq(list, LAMBDA e : Len(e) > 0)

RECURSIVE JoinDot(_)
\* The names of a sequence joined by '.'.
JoinDot(names) ==
    IF Len(names) = 0 THEN <<>>
    ELSE IF Len(names) = 1 THEN names[1]
    ELSE names[1] \o <<".">> \o JoinDot(Tail(names))

\* The step makes a tag.
EmitsTag == Len(tags') = Len(tags) + 1

\* The tag the step makes.
NewTag == tags'[Len(tags')]

\* The step is one the scan takes; a process that a read outside the line
\* ends takes no step (C12).
Completes == pc' # "aborted"

\* The scan has processed every line of the file and not yet deleted the stack.
AtEndOfLines == pc = "read" /\ lineNo = Len(file)

\* A line has just been read, in the first scan of the file (every line of
\* the file is read then).
LineRead == pc = "marker" /\ scan = 1

\* C1: the scope path of every tag is, at the moment the tag is made, the
\* '.'-joined sequence of the non-empty entries of the stack in stack order,
\* the tag's own name not among them; and a step that only adds or removes
\* an anonymous (empty) entry leaves the path of the stack as it was.
C1_ScopePathOfNamedEntries ==
    [][ /\ EmitsTag => NewTag.scope = JoinDot(NamedEntries(nesting))
        /\ (nesting' = Append(nesting, <<>>) \/ nesting = Append(nesting', <<>>))
             => stringListToScope(nesting') = stringListToScope(nesting)
      ]_vars

\* C1 witness: function f was tagged with scope M.C under
\* module M / if / class C / do, two anonymous entries on the stack.
C1_Witness ==
    /\ file = File_MixedNesting
    /\ pc = "scan"
    /\ lineNo = 5
    /\ nesting = << <<"M">>, <<>>, <<"C">>, <<>>, <<"f">> >>
    /\ Len(tags) = 3
    /\ tags[3].name = <<"f">>
    /\ tags[3].scope = <<"M", ".", "C">>

\* C2: a step that makes a tag records it with the scope of the stack as it
\* was before the step and leaves the stack one deeper, the tag's name on
\* top; and module Foo / class Bar / function baz / end / end / end gives
\* exactly Foo (module, no scope), Bar (class, Foo), baz (function, Foo.Bar)
\* and an empty stack after the last line.
C2_PushAfterEmit ==
    /\ [][ EmitsTag =>
             /\ NewTag.scope = stringListToScope(nesting)
             /\ nesting' = Append(nesting, NewTag.name)
             /\ SubSeq(tags', 1, Len(tags)) = tags
         ]_vars
    /\ [](file = File_FooBarBaz /\ AtEndOfLines =>
             /\ tags = << [name |-> <<"F", "o", "o">>, kind |-> "m",
                           kindName |-> "module", scope |-> <<>>],
                          [name |-> <<"B", "a", "r">>, kind |-> "c",
                           kindName |-> "class", scope |-> <<"F", "o", "o">>],
                          [name |-> <<"b", "a", "z">>, kind |-> "f",
                           kindName |-> "function",
                           scope |-> <<"F", "o", "o", ".", "B", "a", "r">>] >>
             /\ nesting = <<>>)

\* C2 witness: the six lines are processed, three tags made.
C2_Witness ==
    /\ file = File_FooBarBaz
    /\ AtEndOfLines
    /\ Len(tags) = 3
    /\ nesting = <<>>

(***************************************************************************)
(* C3: openers and end tokens as the claim counts them, read from the text *)
(* of the lines alone.                                                     *)
(***************************************************************************)
\* A token starts at p: at the start of the line or after white space.
WordStart(s, p) == p = 1 \/ isspace(CharAt(s, p - 1))

\* The line starts (after white space) with one of the listed keywords.
LeadsWith(s, literals) ==
    \E i \in 1..Len(literals) : canMatch(s, skipWhitespace(s, 1), literals[i]).ok

\* An opener at p: the line-leading block or definition keyword, or a begin
\* or do token.
OpenerAt(s, p) ==
    \/ p = skipWhitespace(s, 1)
         /\ (LeadsWith(s, blockKeywords) \/ LeadsWith(s, definitionKeywords))
    \/ WordStart(s, p) /\ (canMatch(s, p, lit_begin).ok \/ canMatch(s, p, lit_do).ok)

\* An end token at p.
EndAt(s, p) == WordStart(s, p) /\ canMatch(s, p, lit_end).ok

RECURSIVE LineEvents(_, _)
\* The openers (1) and end tokens (-1) of line s from p on, left to right.
LineEvents(s, p) ==
    IF p > Len(s) THEN <<>>
    ELSE (IF OpenerAt(s, p) THEN <<1>> ELSE IF EndAt(s, p) THEN <<-1>> ELSE <<>>)
         \o LineEvents(s, p + 1)

RECURSIVE Events(_)
\* The openers and end tokens of a sequence of lines, in order.
Events(lines) ==
    IF Len(lines) = 0 THEN <<>> ELSE LineEvents(lines[1], 1) \o Events(Tail(lines))

RECURSIVE Sum(_)
Sum(ev) == IF Len(ev) = 0 THEN 0 ELSE ev[1] + Sum(Tail(ev))

\* Every end token closes an opener before it, every opener is closed, and
\* there is an opener; the sequence ends with its last end token.
Balanced(lines) ==
    LET ev == Events(lines)
    IN  /\ Len(ev) > 0
        /\ Sum(ev) = 0
        /\ \A k \in 1..Len(ev) : Sum(SubSeq(ev, 1, k)) >= 0
        /\ LineEvents(lines[1], 1) # <<>>
        /\ LineEvents(lines[Len(lines)], 1) # <<>>

\* The text of the lines has no string literal, no '#' and no block comment
\* marker; descriptions (whose names may hold spaces) are left out too.
PlainText(lines) ==
    \A i \in 1..Len(lines) :
        /\ \A p \in 1..Len(lines[i]) : lines[i][p] \notin {"\"", "#"}
        /\ ~canMatch(lines[i], 1, lit_cbegin).ok
        /\ ~canMatch(lines[i], 1, lit_cend).ok
        /\ ~LeadsWith(lines[i], <<lit_describe, lit_context>>)

\* C3 (as claimed): after the lines i..j of a file, a balanced sequence of
\* openers and end tokens in plain text outside any block comment, the stack
\* is as deep as it was before line i.
C3_BalancedRestoresDepth ==
    pc = "read" /\ ~inMultiLineComment =>
        \A i \in 1..lineNo :
            LET segment == SubSeq(file, i, lineNo)
            IN  PlainText(segment) /\ Balanced(segment)
                    => Len(nesting) = depthAt[i]

\* The rest-of-line loop stands on an end token that it will test.
AtEndToken ==
    pc = "scan" /\ ~inMultiLineComment /\ canMatch(line, cp, lit_end).ok

\* C4: the depth of the stack is never negative; a step of the rest-of-line
\* loop on an end token removes exactly the most recently added entry when
\* the stack is not empty, and with an empty stack it consumes the token and
\* leaves the stack, the block comment flag and the tags as they were and the
\* scan going; and within a scan nothing else makes the stack less deep.
C4_EndPopsOneOrNothing ==
    /\ [](Len(nesting) >= 0)
    /\ [][ /\ AtEndToken /\ Len(nesting) > 0 /\ Completes =>
                /\ Len(nesting') = Len(nesting) - 1
                /\ nesting = Append(nesting', nesting[Len(nesting)])
                /\ cp' = cp + Len(lit_end)
           /\ AtEndToken /\ Len(nesting) = 0 /\ Completes =>
                /\ nesting' = <<>>
                /\ cp' >= cp + Len(lit_end)
                /\ pc' = "scan"
                /\ UNCHANGED <<inMultiLineComment, tags, prevTags, file, lineNo, line>>
           /\ Len(nesting') < Len(nesting) /\ pc # "read" => AtEndToken
         ]_vars

\* C4 witness: in module M / end / end the first end has removed M and the
\* second end, met with an empty stack, has been consumed.
C4_Witness ==
    /\ file = <<L_module_M, L_end, L_end>>
    /\ lineNo = 3
    /\ pc = "scan"
    /\ cp = 4
    /\ nesting = <<>>
    /\ depthAt = <<0, 1, 0>>
    /\ Len(tags) = 1

\* Lines whose definition keyword is followed by no name: nothing, white
\* space only, a '(', a name that ends with its '.', or the << of a singleton
\* class.
NamelessLines ==
    {L_function_only, L_function_sp, L_function_nl, L_function_paren,
     L_function_dot_only, L_module_only, L_class_lshift, L_class_lshift_HTTP}

\* The letters of the kind table.
KindLetters == {JuliaKinds[k].letter : k \in 1..KindCount}

\* C5: the definition step of a line whose keyword has no name (or the
\* undefined kind) makes no tag and leaves the stack as it was; every tag has
\* a name of length > 0 and a kind of the kind table; a definition step adds
\* an entry exactly when it makes a tag, and the entry is the tag's name; and
\* every non-empty entry of the stack is the name of a tag made before.
C5_NoNameNoTagNoScope ==
    /\ [][ /\ pc = "definition" /\ line \in NamelessLines =>
                tags' = tags /\ nesting' = nesting
           /\ pc = "definition" =>
                \/ tags' = tags /\ nesting' = nesting
                \/ /\ EmitsTag
                   /\ nesting' = Append(nesting, NewTag.name)
         ]_vars
    /\ [](/\ \A i \in 1..Len(tags) :
                Len(tags[i].name) > 0 /\ tags[i].kind \in KindLetters
          /\ \A k \in 1..Len(nesting) :
                Len(nesting[k]) > 0 => \E i \in 1..Len(tags) : tags[i].name = nesting[k])

\* C5 witness: inside module M the line class << self has passed the
\* definition step: still one tag, still only M on the stack.
C5_Witness ==
    /\ file = <<L_module_M, L_class_lshift>>
    /\ lineNo = 2
    /\ pc = "scan"
    /\ cp = 7
    /\ nesting = << <<"M">> >>
    /\ Len(tags) = 1

\* Every literal the scanner hands to canMatch.
AllLiterals ==
    {lit_cbegin, lit_cend, lit_do, lit_end}
        \cup {blockKeywords[i] : i \in 1..Len(blockKeywords)}
        \cup {definitionKeywords[i] : i \in 1..Len(definitionKeywords)}
        \cup {julia_OPERATORS[i] : i \in 1..Len(julia_OPERATORS)}

\* The literal stands in line s at p, whatever follows it.
OccursAt(s, p, literal) ==
    /\ p + Len(literal) - 1 <= Len(s)
    /\ SubSeq(s, p, p + Len(literal) - 1) = literal

\* The character after the literal at p ends a token: the end of the line,
\* white space or '('.
TokenEndsAfter(s, p, literal) ==
    \/ p + Len(literal) = Len(s) + 1
    \/ /\ p + Len(literal) <= Len(s)
       /\ s[p + Len(literal)] \in {" ", "\t", "\n", VT, "\f", "\r", "("}

\* C6: at every cursor position of every line read and for every
\* literal, canMatch succeeds exactly when the literal stands at the cursor
\* and the next character is the end of the line, white space or '('; then
\* the cursor has moved by the literal's length, otherwise not at all.  So
\* `for` fails on `format x`, `class` on `classify Foo` and `end` on `end_of`,
\* and these lines enter no scope, make no tag and leave no scope.
C6_WholeTokenMatch ==
    /\ LineRead =>
         \A p \in 1..(Len(line) + 1) : \A literal \in AllLiterals :
            LET m == canMatch(line, p, literal)
            IN  /\ m.ok <=> OccursAt(line, p, literal) /\ TokenEndsAfter(line, p, literal)
                /\ m.cp = IF m.ok THEN p + Len(literal) ELSE p
    /\ ~canMatch(L_format, 1, lit_for).ok
    /\ ~canMatch(L_classify, 1, lit_class).ok
    /\ ~canMatch(L_end_of, 1, lit_end).ok
    /\ AtEndOfLines /\ file = <<L_module_M, L_format>> => nesting = << <<"M">> >>
    /\ AtEndOfLines /\ file = <<L_module_M, L_classify>> =>
            nesting = << <<"M">> >> /\ Len(tags) = 1
    /\ AtEndOfLines /\ file = <<L_module_M, L_end_of>> => nesting = << <<"M">> >>

\* C6 witness: inside module M the line end_of has been scanned to its end
\* and M is still on the stack.
C6_Witness ==
    /\ file = <<L_module_M, L_end_of>>
    /\ AtEndOfLines
    /\ line = L_end_of
    /\ nesting = << <<"M">> >>

\* The listed operators that stand in line s at p, whatever follows them.
OperatorsAt(s, p) ==
    {julia_OPERATORS[i] : i \in {j \in 1..Len(julia_OPERATORS) :
                                    OccursAt(s, p, julia_OPERATORS[j])}}

\* The longest of them.
LongestOperatorAt(s, p) ==
    CHOOSE o \in OperatorsAt(s, p) : \A q \in OperatorsAt(s, p) : Len(q) <= Len(o)

\* Lines function <operator>(...) and the operator each carries; the first
\* six carry the longer operator of an overlapping pair, the next six the
\* shorter one.
OperatorLines ==
    << <<L_op_index_set, <<"[", "]", "=">> >>,
       <<L_op_cmp3, <<"<", "=", ">">> >>,
       <<L_op_eq3, <<"=", "=", "=">> >>,
       <<L_op_ne, <<"!", "=">> >>,
       <<L_op_shl, <<"<", "<">> >>,
       <<L_op_pow, <<"*", "*">> >>,
       <<L_op_index, <<"[", "]">> >>,
       <<L_op_le, <<"<", "=">> >>,
       <<L_op_eq2, <<"=", "=">> >>,
       <<L_op_not, <<"!">> >>,
       <<L_op_lt, <<"<">> >>,
       <<L_op_mul, <<"*">> >> >>

\* The line starts with the token function and white space after it.
FunctionLine(s) ==
    canMatch(s, 1, lit_function).ok /\ isspace(CharAt(s, Len(lit_function) + 1))

\* Where the name of a function line starts.
NameStart(s) == skipWhitespace(s, Len(lit_function) + 1)

\* The function tag with the given name at the top level.
FunctionTag(name) ==
    [name |-> name, kind |-> "f", kindName |-> "function", scope |-> <<>>]

\* C7 (as claimed): whenever a listed operator stands at the cursor where the
\* name of a function is parsed, the one tag of the line is named by the
\* longest listed operator standing there.
C7_LongestOperatorAtCursor ==
    AtEndOfLines /\ Len(file) = 1 /\ FunctionLine(file[1])
            /\ OperatorsAt(file[1], NameStart(file[1])) # {}
        => tags = <<FunctionTag(LongestOperatorAt(file[1], NameStart(file[1])))>>

\* C7 (amended): parseJuliaOperator takes an operator exactly when a listed
\* operator stands at the cursor as a whole token (the end of the line, white
\* space or '(' after it), and then it is the longest listed operator standing
\* at the cursor and the cursor moves past all of it; a line function
\* <operator> with such an operator gives exactly one tag, named by the whole
\* operator, of kind function, for the longer and for the shorter operator of
\* every overlapping pair (so function [](key) gives the one tag [], a
\* function).
C7_LongestOperator ==
    /\ LineRead =>
         \A p \in 1..(Len(line) + 1) :
            LET r == parseJuliaOperator(line, p, <<>>)
            IN  /\ r.ok <=> \E o \in OperatorsAt(line, p) : TokenEndsAfter(line, p, o)
                /\ r.ok => /\ r.name = LongestOperatorAt(line, p)
                            /\ r.cp = p + Len(r.name)
    /\ AtEndOfLines /\ Len(file) = 1 /\ FunctionLine(file[1])
            /\ (\E o \in OperatorsAt(file[1], NameStart(file[1])) :
                    TokenEndsAfter(file[1], NameStart(file[1]), o))
        => tags = <<FunctionTag(LongestOperatorAt(file[1], NameStart(file[1])))>>
    /\ \A k \in 1..Len(OperatorLines) :
            AtEndOfLines /\ file = <<OperatorLines[k][1]>> =>
                tags = <<FunctionTag(OperatorLines[k][2])>>

\* C7 witness: function []=(key, val) has been tagged []=.
C7_Witness ==
    /\ file = <<L_op_index_set>>
    /\ AtEndOfLines
    /\ Len(tags) = 1
    /\ tags[1].name = <<"[", "]", "=">>
    /\ tags[1].kind = "f"

\* C8: every scan starts with an empty stack and outside any block comment,
\* whatever the scan before it left; so a scan of the lines the scan before
\* it read ends with the same tags (names, kinds, scope paths) in the same
\* order.
C8_ScansIndependent ==
    /\ pc = "read" /\ lineNo = 0 => nesting = <<>> /\ ~inMultiLineComment
    /\ scan >= 2 /\ pc = "done" => tags = prevTags

\* C8 witness: the second scan of module M / end / function f / =begin is
\* done; the first left f open and the block comment unterminated, and both
\* made the tags M and f.
C8_Witness ==
    /\ file = File_OpenComment
    /\ scan = 2
    /\ pc = "done"
    /\ inMultiLineComment
    /\ Len(tags) = 2
    /\ prevTags = tags

\* Lines with a string literal, and by how much the stack should be deeper
\* after each: an end after a closed literal leaves a scope, a do after a
\* closed literal enters one, tokens inside a literal (closed or not) do
\* nothing.
StringLines ==
    << <<L_str_end, -1>>, <<L_str_do, 1>>, <<L_str_inner_end, 0>>,
       <<L_str_open_begin, 0>> >>

\* C9 (as claimed): inside module M, each line with a string literal changes
\* the depth of the stack by what its tokens outside the literal ask for.
C9_TokensAfterClosedString ==
    \A k \in 1..Len(StringLines) :
        AtEndOfLines /\ file = <<L_module_M, StringLines[k][1]>> =>
            Len(nesting) = 1 + StringLines[k][2]

\* Function lines and the name each should be tagged with: the identifier
\* with its closing '?', '!' or '=', also after the '.' of a qualified name.
TerminatorLines ==
    << <<L_push_bang, <<"p", "u", "s", "h", "!">>, "f">>,
       <<L_empty_q, <<"e", "m", "p", "t", "y", "?">>, "f">>,
       <<L_set_x, <<"x", "=">>, "f">>,
       <<L_foo_bar1, <<"f", "o", "o", "_", "b", "a", "r", "1">>, "f">>,
       <<L_Base_push_bang, <<"p", "u", "s", "h", "!">>, "F">> >>

\* C10 (as claimed): each of these lines gives one tag, with the name that
\* includes the terminating character.
C10_NameTerminators ==
    \A k \in 1..Len(TerminatorLines) :
        AtEndOfLines /\ file = <<TerminatorLines[k][1]>> =>
            /\ Len(tags) = 1
            /\ tags[1].name = TerminatorLines[k][2]
            /\ tags[1].kind = TerminatorLines[k][3]

RECURSIVE IdentEnd(_, _)
\* The position after the alphanumerics and '_' that stand in s from p on.
IdentEnd(s, p) ==
    IF isalnum(CharAt(s, p)) \/ CharAt(s, p) = "_" THEN IdentEnd(s, p + 1) ELSE p

\* A listed operator stands at p as a whole token.
OperatorTokenAt(s, p) == \E o \in OperatorsAt(s, p) : TokenEndsAfter(s, p, o)

\* The text starts with function and a dot-qualified name: white space after
\* the keyword, then alphanumerics and '_' (or nothing), then a '.'.
DotQualified(s) ==
    /\ FunctionLine(s)
    /\ ~OperatorTokenAt(s, NameStart(s))
    /\ CharAt(s, IdentEnd(s, NameStart(s))) = "."

\* Where the text after the first dot starts, white space skipped.
AfterDot(s) == skipWhitespace(s, IdentEnd(s, NameStart(s)) + 1)

\* What follows the first dot: the operator token, or the alphanumerics and
\* '_' up to the next other character (a second dot among them).
SingletonName(s) ==
    IF OperatorTokenAt(s, AfterDot(s))
    THEN LongestOperatorAt(s, AfterDot(s))
    ELSE SubSeq(s, AfterDot(s), IdentEnd(s, AfterDot(s)) - 1)

\* The line from the cursor on.
RestOfLine == SubSeq(line, cp, Len(line))

\* C11: the definition step of function <name>.<rest> makes the tag of kind
\* singleton method ('F') named by the identifier or operator after the first
\* dot alone (no tag when nothing is there), what stood before the dot
\* dropped and a second dot ending the name; a tag of kind 'F' is made by
\* nothing else; parseIdentifier started with the function kind returns the
\* function or the singleton kind, and started with any other kind it returns
\* that kind or the undefined one.
C11_SingletonReparse ==
    /\ [][ /\ pc = "definition" /\ DotQualified(RestOfLine) /\ Completes =>
                IF SingletonName(RestOfLine) = <<>>
                THEN tags' = tags /\ nesting' = nesting
                ELSE /\ EmitsTag
                     /\ NewTag.name = SingletonName(RestOfLine)
                     /\ NewTag.kind = "F"
                     /\ NewTag.kindName = "singleton method"
           /\ EmitsTag /\ NewTag.kind = "F" =>
                pc = "definition" /\ DotQualified(RestOfLine)
         ]_vars
    /\ [](LineRead => \A p \in 1..(Len(line) + 1) :
            /\ parseIdentifier(line, p, <<>>, K_METHOD).kind \in {K_METHOD, K_SINGLETON}
            /\ \A kind \in (K_CLASS..K_IMMU) :
                  parseIdentifier(line, p, <<>>, kind).kind \in {kind, K_UNDEFINED})
    /\ [](AtEndOfLines /\ file = <<L_a_b_c>> =>
            tags = << [name |-> <<"b">>, kind |-> "F",
                       kindName |-> "singleton method", scope |-> <<>>] >>)
    /\ [](AtEndOfLines /\ file = <<L_A_plus>> =>
            tags = << [name |-> <<"+">>, kind |-> "F",
                       kindName |-> "singleton method", scope |-> <<>>] >>)
    /\ [](AtEndOfLines /\ file = <<L_class_A_b>> =>
            tags = << [name |-> <<"A">>, kind |-> "c",
                       kindName |-> "class", scope |-> <<>>] >>)
    /\ [](AtEndOfLines /\ file = <<L_describe_dot>> =>
            tags = << [name |-> <<"a", ".", "b">>, kind |-> "d",
                       kindName |-> "describe", scope |-> <<>>] >>)

\* C11 witness: function a.b.c has been tagged b, a singleton method, and b
\* is on the stack.
C11_Witness ==
    /\ file = <<L_a_b_c>>
    /\ AtEndOfLines
    /\ tags = << [name |-> <<"b">>, kind |-> "F",
                  kindName |-> "singleton method", scope |-> <<>>] >>
    /\ nesting = << <<"b">> >>

\* C12: no scan ends in an error: the process is never ended by the scanner
\* itself; the cursor stands within the line or on its terminating NUL; and
\* a scan that has ended has read every line and deleted the stack. (Every
\* step of the rest-of-line loop that the scan takes leaves the line or moves
\* the cursor forward, so a scan that is not ended this way reaches its end.)
C12_ScanEndsWithoutError ==
    /\ pc # "aborted"
    /\ cp \in 1..(Len(line) + 1)
    /\ pc = "done" => nesting = <<>> /\ lineNo = Len(file)

\* The keywords that make tags, with the kind letter and the kind name each
\* gives.
KeywordKinds ==
    << <<lit_function, "f", "function">>,
       <<lit_class, "c", "class">>,
       <<lit_module, "m", "module">>,
       <<lit_describe, "d", "describe">>,
       <<lit_context, "C", "context">>,
       <<lit_macro, "M", "macro">>,
       <<lit_type, "t", "type">>,
       <<lit_immutable, "i", "immutable">> >>

\* One line for each kind of tag, and the letter of the tag it gives.
KindLines ==
    << <<L_function_f, "f">>, <<L_a_b_c, "F">>, <<L_class_C, "c">>,
       <<L_module_M, "m">>, <<L_describe, "d">>, <<L_context, "C">>,
       <<L_macro, "M">>, <<L_type, "t">>, <<L_immutable, "i">> >>

\* C13: a tag is made only by the definition step of a line, with one of the
\* eight keywords as a whole token at the cursor, and its kind is the
\* keyword's: function gives 'f', or 'F' exactly when the name is
\* dot-qualified, and class, module, describe, context, macro, type and
\* immutable give 'c', 'm', 'd', 'C', 'M', 't' and 'i'; the kind parseIdentifier
\* returns is the undefined one or an index of the kind table, and the kind of
\* every tag is a letter of the table.
C13_KindByKeyword ==
    /\ [][ /\ EmitsTag =>
                /\ pc = "definition"
                /\ \E k \in 1..Len(KeywordKinds) :
                      /\ canMatch(line, cp, KeywordKinds[k][1]).ok
                      /\ IF k = 1 /\ DotQualified(RestOfLine)
                         THEN NewTag.kind = "F" /\ NewTag.kindName = "singleton method"
                         ELSE NewTag.kind = KeywordKinds[k][2]
                                /\ NewTag.kindName = KeywordKinds[k][3]
           /\ tags' # tags => EmitsTag \/ (pc \in {"idle", "done"} /\ tags' = <<>>)
         ]_vars
    /\ [](LineRead => \A p \in 1..(Len(line) + 1) : \A kind \in K_METHOD..K_IMMU :
            LET r == parseIdentifier(line, p, <<>>, kind).kind
            IN  r = K_UNDEFINED \/ r \in 0..(KindCount - 1))
    /\ [](\A i \in 1..Len(tags) : tags[i].kind \in KindLetters)
    /\ [](\A k \in 1..Len(KindLines) :
            AtEndOfLines /\ file = <<KindLines[k][1]>> =>
                Len(tags) = 1 /\ tags[1].kind = KindLines[k][2])
    /\ [](AtEndOfLines /\ Len(file) = 1
            /\ LeadsWith(file[1], blockKeywords \o <<lit_do, lit_end>>) => tags = <<>>)

\* C13 witness: context c has been tagged with kind 'C'.
C13_Witness ==
    /\ file = <<L_context>>
    /\ AtEndOfLines
    /\ tags = << [name |-> <<"c">>, kind |-> "C", kindName |-> "context",
                  scope |-> <<>>] >>

\* Lines with a begin or end token right after a character that is neither
\* white space, '#', '"', alphanumeric nor '_', and by how much the stack
\* should be deeper after each.
PunctuationLines ==
    << <<L_paren_end, -1>>, <<L_semi_end, -1>>, <<L_semi_begin, 1>> >>

\* C14 (as claimed): inside module M, the token after the ')' or ';' is seen:
\* the end leaves M, the begin enters a scope.
C14_TokenAfterPunctuation ==
    \A k \in 1..Len(PunctuationLines) :
        AtEndOfLines /\ file = <<L_module_M, PunctuationLines[k][1]>> =>
            Len(nesting) = 1 + PunctuationLines[k][2]

\* The lines read so far start with a =begin marker line and hold no =end
\* marker line after it: all but the first lie inside the block comment.
ReadInsideBlockComment ==
    /\ lineNo >= 1
    /\ canMatch(file[1], 1, lit_cbegin).ok
    /\ \A i \in 2..lineNo : ~canMatch(file[i], 1, lit_cend).ok

\* C15 (as claimed): while every line read so far is the =begin marker line or
\* lies inside the block comment it opens, no tag is made and the stack is as
\* it was at the start of the scan, empty.
C15_BlockCommentInert ==
    ReadInsideBlockComment => tags = <<>> /\ nesting = <<>>

\* Lines with a definition keyword that is not their first token, and the
\* stack each leaves.
LaterKeywordLines ==
    << <<L_if_function, << <<>> >> >>,
       <<L_begin_function, << <<>> >> >>,
       <<L_x_function, <<>> >> >>

\* Lines that start with a definition and hold a second definition keyword
\* later, and the name of the one tag each gives.
TwoKeywordLines ==
    << <<L_two_functions, <<"f">> >>, <<L_module_class, <<"M">> >> >>

\* C16: a tag is made only by the definition step, with a definition keyword
\* at the cursor and the cursor on the first character of the line that is
\* not white space; that step is taken once for each line read; so a line
\* makes at most one tag and adds at most one named entry.  if function g,
\* begin function g and x function g make no tag, function f function g makes
\* the tag f alone, an indented function h makes the tag h.
C16_OnlyLineLeadingDefinition ==
    /\ [][ /\ EmitsTag =>
                /\ pc = "definition" /\ pc' = "scan"
                /\ cp = skipWhitespace(line, 1)
                /\ LeadsWith(line, definitionKeywords)
           /\ Len(tags') <= Len(tags) + 1
           /\ Len(NamedEntries(nesting')) <= Len(NamedEntries(nesting)) + 1
           /\ Len(NamedEntries(nesting')) > Len(NamedEntries(nesting)) => EmitsTag
           /\ pc' = "definition" => pc = "block"
           /\ pc' = "block" => pc = "marker"
           /\ pc' = "marker" => lineNo' = lineNo + 1
         ]_vars
    /\ [](Len(tags) <= lineNo /\ Len(NamedEntries(nesting)) <= lineNo)
    /\ [](\A k \in 1..Len(LaterKeywordLines) :
            AtEndOfLines /\ file = <<LaterKeywordLines[k][1]>> =>
                tags = <<>> /\ nesting = LaterKeywordLines[k][2])
    /\ [](\A k \in 1..Len(TwoKeywordLines) :
            AtEndOfLines /\ file = <<TwoKeywordLines[k][1]>> =>
                /\ Len(tags) = 1 /\ tags[1].name = TwoKeywordLines[k][2]
                /\ nesting = <<TwoKeywordLines[k][2]>>)
    /\ [](AtEndOfLines /\ file = <<L_indent_function>> =>
            Len(tags) = 1 /\ tags[1].name = <<"h">>)

\* C16 witness: if function g has been scanned: no tag, only the anonymous
\* scope of the if on the stack.
C16_Witness ==
    /\ file = <<L_if_function>>
    /\ AtEndOfLines
    /\ tags = <<>>
    /\ nesting = << <<>> >>

\* The block keywords other than begin.
ModifierKeywords ==
    <<lit_case, lit_for, lit_if, lit_unless, lit_quote, lit_let, lit_catch, lit_while>>

\* One line that starts with each of them.
LeadingKeywordLines ==
    <<L_case, L_for_i, L_if_x, L_unless, L_quote, L_let, L_catch, L_while>>

\* Lines with one of them later in the line only.
ModifierLines == <<L_return_if, L_x_while, L_x_unless, L_x_for, L_x_case>>

\* A step adds an anonymous entry to the stack.
PushesAnonymous == nesting' = Append(nesting, <<>>)

\* C17: the block keyword step adds one anonymous entry exactly when a block
\* keyword is the first token of the line, and moves the cursor past it; a
\* step of the loop over the rest of the line adds an entry only for a begin
\* or do token at the cursor, one anonymous entry; nothing else adds an
\* anonymous entry.  So each of case, for, if, unless, quote, let, catch,
\* while adds one entry at the start of a line and none later in a line, a
\* line-leading begin adds one entry, not two, and begin begin adds two.
C17_BlockKeywordsOnlyLeading ==
    /\ [][ /\ pc = "block" /\ Completes =>
                IF LeadsWith(line, blockKeywords)
                THEN PushesAnonymous /\ cp' > cp /\ cp = skipWhitespace(line, 1)
                ELSE nesting' = nesting /\ cp' = cp
           /\ pc = "scan" /\ nesting' # nesting /\ Len(nesting') >= Len(nesting) =>
                /\ PushesAnonymous
                /\ canMatch(line, cp, lit_begin).ok \/ canMatch(line, cp, lit_do).ok
           /\ (pc = "scan" /\ \E k \in 1..Len(ModifierKeywords) :
                                   canMatch(line, cp, ModifierKeywords[k]).ok)
                => nesting' = nesting
           /\ PushesAnonymous => pc \in {"block", "scan"}
         ]_vars
    /\ [](\A k \in 1..Len(LeadingKeywordLines) :
            AtEndOfLines /\ file = <<LeadingKeywordLines[k]>> => nesting = << <<>> >>)
    /\ [](\A k \in 1..Len(ModifierLines) :
            AtEndOfLines /\ file = <<L_module_M, ModifierLines[k]>> =>
                nesting = << <<"M">> >>)
    /\ [](AtEndOfLines /\ file = <<L_begin>> => nesting = << <<>> >>)
    /\ [](AtEndOfLines /\ file = <<L_begin_begin>> => nesting = << <<>>, <<>> >>)
    /\ [](AtEndOfLines /\ file = <<L_x_begin>> => nesting = << <<>> >>)
    /\ [](AtEndOfLines /\ file = <<L_if_while>> => nesting = << <<>> >>)

\* C17 witness: inside module M the line return if x has been scanned and
\* only M is on the stack.
C17_Witness ==
    /\ file = <<L_module_M, L_return_if>>
    /\ AtEndOfLines
    /\ line = L_return_if
    /\ nesting = << <<"M">> >>
====
